---- MODULE Spec2Model ----
(***************************************************************************)
(* Model of the two Tauri commands of src-tauri/src/lib.rs:                *)
(*   convert_ohh_content(content)   and   convert_ohh_file_path(file_path) *)
(* Several callers invoke the commands concurrently; the only resource     *)
(* they share is the filesystem, which other processes may change between  *)
(* two filesystem calls of one command.                                    *)
(*                                                                         *)
(* A file name is a sequence of one-character strings, a path a sequence   *)
(* of file names, a String read from a file the pair (length in bytes,     *)
(* document).  Messages are the strings of the source.                     *)
(***************************************************************************)
EXTENDS Integers, Sequences, FiniteSets, TLC

VARIABLES
    fs,         \* the filesystem: canonical path -> node
    envSteps,   \* number of changes other processes made so far
    pc,         \* per caller: position in the command it runs
    cmd,        \* per caller: "content", "path" or "none"
    file_path,  \* per caller: parameter of convert_ohh_file_path (lib.rs:25)
    input,      \* per caller: parameter of convert_ohh_content (lib.rs:12)
    canonical,  \* per caller: local `canonical` (lib.rs:34)
    metaLen,    \* per caller: metadata.len() of local `metadata` (lib.rs:59)
    content,    \* per caller: local `content` (lib.rs:78)
    result,     \* per caller: the value the command returned
    trace,      \* history: the steps the running command performed, in order
    dirty       \* history: the filesystem changed while the command ran

vars == <<fs, envSteps, pc, cmd, file_path, input, canonical, metaLen, content, result, trace, dirty>>

-----------------------------------------------------------------------------
(* Bounds of the model *)

\* how many changes other processes make to the shared files
MaxEnvSteps == 1

Callers == {"c1", "c2"}

-----------------------------------------------------------------------------
(* Result<T, String> *)

Ok(v) == [ok |-> TRUE, val |-> v]
Err(e) == [ok |-> FALSE, val |-> e]

-----------------------------------------------------------------------------
(* File names and paths *)

\* a byte that is not valid UTF-8 (OsStr::to_str gives None on it)
BadByte == "<FF>"
DotDot == <<".", ".">>

A_OHH == <<"a", ".", "o", "h", "h">>
V_TXT == <<"v", ".", "t", "x", "t">>
M_TXT == <<"m", ".", "t", "x", "t">>
O_JSON == <<"o", ".", "j", "s", "o", "n">>
B_BIN == <<"b", ".", "b", "i", "n">>
U_OHH == <<"u", ".", "O", "H", "H">>
T_TXT == <<"t", ".", "T", "x", "t">>
NOEXT == <<"n">>
HIDDEN == <<".", "o", "h", "h">>
RAW == <<"r", ".", "o", "h", BadByte>>
E_TXT == <<"e", ".", "t", "x", "t">>
S_JSON == <<"s", ".", "j", "s", "o", "n">>
Z_OHH == <<"z", ".", "o", "h", "h">>
X_TXT == <<"x", ".", "t", "x", "t">>
L_OHH == <<"l", ".", "o", "h", "h">>
L_BIN == <<"l", ".", "b", "i", "n">>
DIR == <<"d">>
ETC == <<"e", "t", "c">>
PASSWD == <<"p", "a", "s", "s", "w", "d">>
GONE_OHH == <<"g", ".", "o", "h", "h">>

\* const MAX_FILE_SIZE: u64 = 100 * 1024 * 1024
MAX_FILE_SIZE == 100 * 1024 * 1024

File(n, d, u) == [kind |-> "file", len |-> n, doc |-> d, utf8 |-> u, target |-> <<>>]
Link(t) == [kind |-> "link", len |-> Len(t), doc |-> "", utf8 |-> TRUE, target |-> t]
Dir == [kind |-> "dir", len |-> 4096, doc |-> "", utf8 |-> TRUE, target |-> <<>>]

\* The files on disk when the application starts: canonical path -> node.
InitialFs ==
    ( <<>> :> Dir
   @@ <<DIR>> :> Dir
   @@ <<A_OHH>> :> File(12, "hand1", TRUE)
   @@ <<V_TXT>> :> File(14, "hand2", TRUE)
   @@ <<M_TXT>> :> File(MAX_FILE_SIZE, "hand2", TRUE)
   @@ <<O_JSON>> :> File(MAX_FILE_SIZE + 1, "hand1", TRUE)
   @@ <<B_BIN>> :> File(MAX_FILE_SIZE + 1, "hand1", TRUE)
   @@ <<U_OHH>> :> File(12, "hand1", TRUE)
   @@ <<T_TXT>> :> File(12, "hand1", TRUE)
   @@ <<NOEXT>> :> File(12, "hand1", TRUE)
   @@ <<HIDDEN>> :> File(12, "hand1", TRUE)
   @@ <<RAW>> :> File(12, "hand1", TRUE)
   @@ <<E_TXT>> :> File(7, "malformed", TRUE)
   @@ <<S_JSON>> :> File(9, "dangling", TRUE)
   @@ <<Z_OHH>> :> File(0, "empty", TRUE)
   @@ <<X_TXT>> :> File(12, "hand1", FALSE)
   @@ <<L_OHH>> :> Link(<<NOEXT>>)
   @@ <<L_BIN>> :> Link(<<A_OHH>>) )

\* The path strings a caller supplies (relative to the root directory).
Paths ==
    { <<A_OHH>>, <<V_TXT>>, <<M_TXT>>, <<O_JSON>>, <<B_BIN>>, <<U_OHH>>, <<T_TXT>>,
      <<NOEXT>>, <<HIDDEN>>, <<RAW>>, <<E_TXT>>, <<S_JSON>>, <<Z_OHH>>, <<X_TXT>>,
      <<L_OHH>>, <<L_BIN>>, <<DIR>>, <<DIR, DotDot, A_OHH>>,
      <<DotDot, DotDot, ETC, PASSWD>>, <<GONE_OHH>> }

\* The files other processes write to or remove.
Shared == { <<A_OHH>>, <<M_TXT>> }

\* The strings a caller passes to convert_ohh_content.
Contents ==
    { [len |-> 12, doc |-> "hand1"], [len |-> 14, doc |-> "hand2"],
      [len |-> 0, doc |-> "empty"], [len |-> 7, doc |-> "malformed"],
      [len |-> 9, doc |-> "dangling"], [len |-> 11, doc |-> "unrepresentable"] }

NoContent == [len |-> 0, doc |-> ""]
NoResult == Err("")

-----------------------------------------------------------------------------
(* The filesystem calls of std that the command makes *)

Parent(p) == IF p = <<>> THEN <<>> ELSE SubSeq(p, 1, Len(p) - 1)

\* Resolution of the components `rest` from the resolved directory `cur`:
\* ".." goes to the parent, a symbolic link is replaced by its target.
RECURSIVE Walk(_, _, _, _)
Walk(f, cur, rest, fuel) ==
    IF rest = <<>> THEN Ok(cur)
    ELSE LET c == Head(rest)
             cand == Append(cur, c)
         IN  IF c = DotDot THEN Walk(f, Parent(cur), Tail(rest), fuel)
             ELSE IF cand \notin DOMAIN f THEN Err("ENOENT")
             ELSE IF f[cand].kind = "dir" THEN Walk(f, cand, Tail(rest), fuel)
             ELSE IF f[cand].kind = "file"
                  THEN IF Tail(rest) = <<>> THEN Ok(cand) ELSE Err("ENOTDIR")
             ELSE IF fuel = 0 THEN Err("ELOOP")
             ELSE Walk(f, cur, f[cand].target \o Tail(rest), fuel - 1)

\* Variant: the path is only made absolute, links are not followed.
RECURSIVE WalkLexical(_, _, _)
WalkLexical(f, cur, rest) ==
    IF rest = <<>> THEN IF cur \in DOMAIN f THEN Ok(cur) ELSE Err("ENOENT")
    ELSE IF Head(rest) = DotDot THEN WalkLexical(f, Parent(cur), Tail(rest))
    ELSE WalkLexical(f, Append(cur, Head(rest)), Tail(rest))

Canonicalize_Lexical(f, p) == WalkLexical(f, <<>>, p)

\* Path::canonicalize: the absolute path with every ".." and link resolved,
\* an error when the target does not exist.
Canonicalize(f, p) == Walk(f, <<>>, p, 40)

\* fs::metadata(path).len(): follows links, fails when the path is gone.
Metadata(f, p) ==
    LET r == Canonicalize(f, p)
    IN  IF r.ok THEN Ok(f[r.val].len) ELSE r

\* fs::read_to_string(path): the whole file as it is at the time of the call;
\* fails on a missing file, a directory, or bytes that are not UTF-8.
ReadToString(f, p) ==
    LET r == Canonicalize(f, p)
    IN  IF ~r.ok THEN r
        ELSE IF f[r.val].kind = "dir" THEN Err("EISDIR")
        ELSE IF ~f[r.val].utf8 THEN Err("InvalidData")
        ELSE Ok([len |-> f[r.val].len, doc |-> f[r.val].doc])

None == [some |-> FALSE, v |-> <<>>]
Some(x) == [some |-> TRUE, v |-> x]

\* index of the last "." of a file name, 0 when it has none
LastDot(name) ==
    LET dots == {i \in 1..Len(name) : name[i] = "."}
    IN  IF dots = {} THEN 0 ELSE CHOOSE i \in dots : \A j \in dots : j <= i

\* Path::extension: the part of the file name after its last ".", None when
\* there is no file name, no "." or only a leading ".".
Extension(p) ==
    IF p = <<>> THEN None
    ELSE LET name == p[Len(p)]
             i == LastDot(name)
         IN  IF name = DotDot \/ i = 0 \/ i = 1 THEN None
             ELSE Some(SubSeq(name, i + 1, Len(name)))

\* OsStr::to_str: None when some byte is not valid UTF-8
ToStr(ext) ==
    IF \E i \in 1..Len(ext) : ext[i] = BadByte THEN None ELSE Some(ext)

UnwrapOr(o, default) == IF o.some THEN o.v ELSE default

-----------------------------------------------------------------------------
(* converter::convert_ohh_file: Parser -> Transformer -> Emitter.  The first  *)
(* stage that fails gives the error, tagged with its stage.                  *)

ConvertOhhFile(text) ==
    CASE text.doc = "empty" -> Err("Parse: empty input")
      [] text.doc = "malformed" -> Err("Parse: unexpected token at line 1")
      [] text.doc = "dangling" -> Err("Semantic: unknown record reference")
      [] text.doc = "unrepresentable" -> Err("Emit: unrepresentable value")
      [] OTHER -> Ok("pab:" \o text.doc)

-----------------------------------------------------------------------------
(* The messages of convert_ohh_file_path *)

PathInvalidMsg == "Invalid file path or file does not exist"
InvalidTypeMsg == "Invalid file type. Only .ohh, .txt, or .json files are supported"
NoExtensionMsg == "File must have an extension"
AccessMsg == "Cannot access file"
ReadMsg == "Failed to read file"
TooLargeMsg(len) ==
    "File too large: " \o ToString((len \div 1024) \div 1024) \o " MB (maximum 100 MB)"

AllowedExtensions == { <<"o", "h", "h">>, <<"t", "x", "t">>, <<"j", "s", "o", "n">> }

-----------------------------------------------------------------------------
(* The gates of convert_ohh_file_path, each Ok or the Err the command returns *)

\* Variant: a path that cannot be canonicalized is used as supplied.
CanonicalizeGate_Fallback(f, path) ==
    LET r == Canonicalize(f, path)
    IN  IF r.ok THEN r ELSE Ok(path)

CanonicalizeGate(f, path) ==
    LET r == Canonicalize(f, path)
    IN  IF r.ok THEN r ELSE Err(PathInvalidMsg)

Lower(ch) ==
    CASE ch = "O" -> "o" [] ch = "H" -> "h" [] ch = "T" -> "t" [] ch = "X" -> "x"
      [] ch = "J" -> "j" [] ch = "S" -> "s" [] ch = "N" -> "n" [] OTHER -> ch

\* Variant: the extension is compared ignoring case.
ExtensionGate_IgnoreCase(canon) ==
    LET ext == Extension(canon)
    IN  IF ext.some
        THEN LET ext_str == UnwrapOr(ToStr(ext.v), <<>>)
                 lower == [i \in 1..Len(ext_str) |-> Lower(ext_str[i])]
             IN  IF lower \notin AllowedExtensions THEN Err(InvalidTypeMsg)
                 ELSE Ok("")
        ELSE Err(NoExtensionMsg)

\* Variant: the extension check is left out (or runs after the size check).
ExtensionGate_Skipped(canon) == Ok("")

ExtensionGate(canon) ==
    LET ext == Extension(canon)
    IN  IF ext.some
        THEN LET ext_str == UnwrapOr(ToStr(ext.v), <<>>)
             IN  IF ext_str \notin AllowedExtensions THEN Err(InvalidTypeMsg)
                 ELSE Ok("")
        ELSE Err(NoExtensionMsg)

MetadataGate(f, canon) ==
    LET r == Metadata(f, canon)
    IN  IF r.ok THEN r ELSE Err(AccessMsg)

\* Variant: the ceiling itself is rejected.
SizeGate_Inclusive(len) ==
    IF len >= MAX_FILE_SIZE THEN Err(TooLargeMsg(len)) ELSE Ok("")

\* Variant: the size is logged but not checked.
SizeGate_Unchecked(len) == Ok("")

SizeGate(len) ==
    IF len > MAX_FILE_SIZE THEN Err(TooLargeMsg(len)) ELSE Ok("")

\* Variant: a failed read gives the empty string (unwrap_or_default).
ReadGate_Default(f, canon) ==
    LET r == ReadToString(f, canon)
    IN  IF r.ok THEN r ELSE Ok([len |-> 0, doc |-> "empty"])

ReadGate(f, canon) ==
    LET r == ReadToString(f, canon)
    IN  IF r.ok THEN r ELSE Err(ReadMsg)

\* Variant: the text to convert is kept in a buffer all calls share.
ConvertFile_SharedBuffer(text) ==
    LET held == {c \in Callers : content[c].doc # ""}
        buf == IF held = {} THEN text
               ELSE content[CHOOSE c \in held : \A d \in held : content[d].len <= content[c].len]
        r == ConvertOhhFile(buf)
    IN  IF r.ok THEN Ok(r.val) ELSE Err(r.val)

\* lib.rs:85-94: the converter's result, returned as it is
ConvertFile(text) ==
    LET r == ConvertOhhFile(text)
    IN  IF r.ok THEN Ok(r.val) ELSE Err(r.val)

\* lib.rs:15-21: the converter's error is prefixed
ConvertContent(text) ==
    LET r == ConvertOhhFile(text)
    IN  IF r.ok THEN Ok(r.val) ELSE Err("conversion failed: " \o r.val)

\* convert_ohh_file_path(p) run alone on the filesystem f, start to end.
convert_ohh_file_path(f, p) ==
    LET canon == CanonicalizeGate(f, p) IN
    IF ~canon.ok THEN canon ELSE
    LET ext == ExtensionGate(canon.val) IN
    IF ~ext.ok THEN ext ELSE
    LET metadata == MetadataGate(f, canon.val) IN
    IF ~metadata.ok THEN metadata ELSE
    LET size == SizeGate(metadata.val) IN
    IF ~size.ok THEN size ELSE
    LET text == ReadGate(f, canon.val) IN
    IF ~text.ok THEN text ELSE ConvertFile(text.val)

-----------------------------------------------------------------------------
(* State machine *)

Init ==
    /\ fs = InitialFs
    /\ envSteps = 0
    /\ pc = [c \in Callers |-> "idle"]
    /\ cmd = [c \in Callers |-> "none"]
    /\ file_path = [c \in Callers |-> <<>>]
    /\ input = [c \in Callers |-> NoContent]
    /\ canonical = [c \in Callers |-> <<>>]
    /\ metaLen = [c \in Callers |-> 0]
    /\ content = [c \in Callers |-> NoContent]
    /\ result = [c \in Callers |-> NoResult]
    /\ trace = [c \in Callers |-> <<>>]
    /\ dirty = [c \in Callers |-> FALSE]

\* The command returns r.
Finish(c, r) ==
    /\ pc' = [pc EXCEPT ![c] = "done"]
    /\ result' = [result EXCEPT ![c] = r]

\* convert_ohh_content(x), the whole command: it touches nothing shared.
convert_ohh_content(c, x) ==
    /\ pc[c] = "idle"
    /\ cmd' = [cmd EXCEPT ![c] = "content"]
    /\ input' = [input EXCEPT ![c] = x]
    /\ trace' = [trace EXCEPT ![c] = <<"convert">>]
    /\ Finish(c, ConvertContent(x))
    /\ UNCHANGED <<fs, envSteps, file_path, canonical, metaLen, content, dirty>>

\* convert_ohh_file_path(p) up to its first filesystem call (lib.rs:25-41)
CanonicalizeStep(c, p) ==
    /\ pc[c] = "idle"
    /\ cmd' = [cmd EXCEPT ![c] = "path"]
    /\ file_path' = [file_path EXCEPT ![c] = p]
    /\ trace' = [trace EXCEPT ![c] = <<"canonicalize">>]
    /\ LET r == CanonicalizeGate(fs, p)
       IN  IF r.ok
           THEN /\ canonical' = [canonical EXCEPT ![c] = r.val]
                /\ pc' = [pc EXCEPT ![c] = "extension"]
                /\ UNCHANGED result
           ELSE /\ Finish(c, r)
                /\ UNCHANGED canonical
    /\ UNCHANGED <<fs, envSteps, input, metaLen, content, dirty>>

\* lib.rs:43-56
ExtensionStep(c) ==
    /\ pc[c] = "extension"
    /\ trace' = [trace EXCEPT ![c] = Append(@, "extension")]
    /\ LET r == ExtensionGate(canonical[c])
       IN  IF r.ok
           THEN /\ pc' = [pc EXCEPT ![c] = "metadata"]
                /\ UNCHANGED result
           ELSE Finish(c, r)
    /\ UNCHANGED <<fs, envSteps, cmd, file_path, input, canonical, metaLen, content, dirty>>

\* lib.rs:58-65
MetadataStep(c) ==
    /\ pc[c] = "metadata"
    /\ trace' = [trace EXCEPT ![c] = Append(@, "metadata")]
    /\ LET r == MetadataGate(fs, canonical[c])
       IN  IF r.ok
           THEN /\ metaLen' = [metaLen EXCEPT ![c] = r.val]
                /\ pc' = [pc EXCEPT ![c] = "size"]
                /\ UNCHANGED result
           ELSE /\ Finish(c, r)
                /\ UNCHANGED metaLen
    /\ UNCHANGED <<fs, envSteps, cmd, file_path, input, canonical, content, dirty>>

\* lib.rs:67-75
SizeStep(c) ==
    /\ pc[c] = "size"
    /\ trace' = [trace EXCEPT ![c] = Append(@, "size")]
    /\ LET r == SizeGate(metaLen[c])
       IN  IF r.ok
           THEN /\ pc' = [pc EXCEPT ![c] = "read"]
                /\ UNCHANGED result
           ELSE Finish(c, r)
    /\ UNCHANGED <<fs, envSteps, cmd, file_path, input, canonical, metaLen, content, dirty>>

\* lib.rs:77-82
ReadStep(c) ==
    /\ pc[c] = "read"
    /\ trace' = [trace EXCEPT ![c] = Append(@, "read")]
    /\ LET r == ReadGate(fs, canonical[c])
       IN  IF r.ok
           THEN /\ content' = [content EXCEPT ![c] = r.val]
                /\ pc' = [pc EXCEPT ![c] = "convert"]
                /\ UNCHANGED result
           ELSE /\ Finish(c, r)
                /\ UNCHANGED content
    /\ UNCHANGED <<fs, envSteps, cmd, file_path, input, canonical, metaLen, dirty>>

\* lib.rs:84-94
ConvertStep(c) ==
    /\ pc[c] = "convert"
    /\ trace' = [trace EXCEPT ![c] = Append(@, "convert")]
    /\ Finish(c, ConvertFile(content[c]))
    /\ UNCHANGED <<fs, envSteps, cmd, file_path, input, canonical, metaLen, content, dirty>>

\* The caller has the result; every local of the call is dropped.
Return(c) ==
    /\ pc[c] = "done"
    /\ pc' = [pc EXCEPT ![c] = "idle"]
    /\ cmd' = [cmd EXCEPT ![c] = "none"]
    /\ file_path' = [file_path EXCEPT ![c] = <<>>]
    /\ input' = [input EXCEPT ![c] = NoContent]
    /\ canonical' = [canonical EXCEPT ![c] = <<>>]
    /\ metaLen' = [metaLen EXCEPT ![c] = 0]
    /\ content' = [content EXCEPT ![c] = NoContent]
    /\ result' = [result EXCEPT ![c] = NoResult]
    /\ trace' = [trace EXCEPT ![c] = <<>>]
    /\ dirty' = [dirty EXCEPT ![c] = FALSE]
    /\ UNCHANGED <<fs, envSteps>>

\* A call that has started sees a filesystem that changed under it.
Touched == [c \in Callers |-> dirty[c] \/ pc[c] # "idle"]

\* Another process appends to a shared file until it exceeds the ceiling.
EnvGrow(p) ==
    /\ envSteps < MaxEnvSteps
    /\ p \in DOMAIN fs
    /\ fs[p].len <= MAX_FILE_SIZE
    /\ fs' = [fs EXCEPT ![p].len = MAX_FILE_SIZE + 1]
    /\ envSteps' = envSteps + 1
    /\ dirty' = Touched
    /\ UNCHANGED <<pc, cmd, file_path, input, canonical, metaLen, content, result, trace>>

\* Another process removes a shared file.
EnvRemove(p) ==
    /\ envSteps < MaxEnvSteps
    /\ p \in DOMAIN fs
    /\ fs' = [q \in DOMAIN fs \ {p} |-> fs[q]]
    /\ envSteps' = envSteps + 1
    /\ dirty' = Touched
    /\ UNCHANGED <<pc, cmd, file_path, input, canonical, metaLen, content, result, trace>>

Next ==
    \/ \E c \in Callers, x \in Contents : convert_ohh_content(c, x)
    \/ \E c \in Callers, p \in Paths : CanonicalizeStep(c, p)
    \/ \E c \in Callers : ExtensionStep(c)
    \/ \E c \in Callers : MetadataStep(c)
    \/ \E c \in Callers : SizeStep(c)
    \/ \E c \in Callers : ReadStep(c)
    \/ \E c \in Callers : ConvertStep(c)
    \/ \E c \in Callers : Return(c)
    \/ \E p \in Shared : EnvGrow(p)
    \/ \E p \in Shared : EnvRemove(p)

Spec == Init /\ [][Next]_vars

-----------------------------------------------------------------------------
(* Vocabulary of the properties *)

GateOrder == <<"canonicalize", "extension", "metadata", "size", "read", "convert">>

PathCall(c) == cmd[c] = "path"
Done(c) == pc[c] = "done"
\* the running call performed at least n steps
Ran(c, n) == Len(trace[c]) >= n
\* the call ended in its n-th step
StoppedAt(c, n) == Done(c) /\ Len(trace[c]) = n
Did(c, step) == \E i \in 1..Len(trace[c]) : trace[c][i] = step

Docs == {"hand1", "hand2", "empty", "malformed", "dangling", "unrepresentable"}
ConverterResults == {ConvertOhhFile([len |-> 1, doc |-> d]) : d \in Docs}
ConverterErrors == {r.val : r \in {x \in ConverterResults : ~x.ok}}
ExtensionErrors == {InvalidTypeMsg, NoExtensionMsg}

-----------------------------------------------------------------------------
\* C1: the gates of convert_ohh_file_path run in the order canonicalize,
\* extension, metadata, size, read, convert; the error returned is that of the
\* gate the call stopped in, every earlier gate having passed; a file with an
\* unsupported extension that is also over the ceiling fails with the
\* unsupported-extension message; 'Cannot access file' comes from the third
\* step and 'Failed to read file' from the fifth.
C1_GateOrder ==
    \A c \in Callers : PathCall(c) =>
        /\ trace[c] = SubSeq(GateOrder, 1, Len(trace[c]))
        /\ (Done(c) /\ ~result[c].ok) =>
              /\ StoppedAt(c, 1) <=> result[c].val = PathInvalidMsg
              /\ StoppedAt(c, 2) <=> result[c].val \in ExtensionErrors
              /\ StoppedAt(c, 3) <=> result[c].val = AccessMsg
              /\ StoppedAt(c, 4) <=> result[c].val = TooLargeMsg(metaLen[c])
              /\ StoppedAt(c, 5) <=> result[c].val = ReadMsg
              /\ StoppedAt(c, 6) <=> result[c].val \in ConverterErrors
        /\ (Done(c) /\ file_path[c] = <<B_BIN>>) => result[c] = Err(InvalidTypeMsg)
        /\ (Done(c) /\ file_path[c] = <<O_JSON>>) =>
              result[c] = Err("File too large: 100 MB (maximum 100 MB)")

\* a call on the oversized file with an unsupported extension has returned
C1_Witness ==
    \E c \in Callers : PathCall(c) /\ Done(c) /\ file_path[c] = <<B_BIN>>
        /\ fs[<<B_BIN>>].len > MAX_FILE_SIZE

-----------------------------------------------------------------------------
\* C2: within one call the file is read only after canonicalization, an accepted
\* extension and a reported size of at most the ceiling; the converter runs only
\* after a successful read; after a gate failed no later step is performed; a
\* file whose reported size exceeds the ceiling is never read.
C2_ReadOnlyAfterGates ==
    \A c \in Callers : PathCall(c) =>
        /\ Did(c, "read") =>
              /\ SubSeq(trace[c], 1, 4) = <<"canonicalize", "extension", "metadata", "size">>
              /\ Extension(canonical[c]).some
              /\ Extension(canonical[c]).v \in AllowedExtensions
              /\ metaLen[c] <= MAX_FILE_SIZE
        /\ metaLen[c] > MAX_FILE_SIZE => (~Did(c, "read") /\ ~Did(c, "convert"))
        /\ Did(c, "convert") => (Did(c, "read") /\ content[c] # NoContent)
        /\ (Done(c) /\ result[c].val = PathInvalidMsg) => trace[c] = <<"canonicalize">>
        /\ (Done(c) /\ result[c].val \in ExtensionErrors) => ~Did(c, "metadata")
        /\ (Done(c) /\ result[c].val = AccessMsg) => ~Did(c, "read")
        /\ (Done(c) /\ result[c].val = ReadMsg) => (~Did(c, "convert") /\ content[c] = NoContent)

\* a file of exactly the ceiling has been read
C2_Witness ==
    \E c \in Callers : PathCall(c) /\ Did(c, "read") /\ metaLen[c] = MAX_FILE_SIZE
        /\ content[c].len = MAX_FILE_SIZE

-----------------------------------------------------------------------------
\* C3: once the path is canonicalized, the call fails with an unsupported-
\* extension message exactly when the extension of the canonical path is absent
\* or is not ohh, txt or json, compared exactly (case-sensitive); OHH and Txt
\* are rejected, and so is an extension that is not valid UTF-8.
C3_ExtensionGate ==
    \A c \in Callers : (PathCall(c) /\ Ran(c, 2)) =>
        LET ext == Extension(canonical[c])
            accepted == /\ ext.some
                        /\ ext.v \in { <<"o", "h", "h">>, <<"t", "x", "t">>,
                                       <<"j", "s", "o", "n">> }
        IN  /\ StoppedAt(c, 2) <=> ~accepted
            /\ StoppedAt(c, 2) =>
                  result[c] = IF ext.some THEN Err(InvalidTypeMsg) ELSE Err(NoExtensionMsg)
            /\ canonical[c] \in {<<U_OHH>>, <<T_TXT>>, <<RAW>>} =>
                  (StoppedAt(c, 2) /\ result[c] = Err(InvalidTypeMsg))
            /\ canonical[c] \in {<<NOEXT>>, <<HIDDEN>>, <<DIR>>} =>
                  (StoppedAt(c, 2) /\ result[c] = Err(NoExtensionMsg))

\* one call was rejected for the spelling OHH while another passed with ohh
C3_Witness ==
    \E c, d \in Callers :
        /\ PathCall(c) /\ canonical[c] = <<U_OHH>> /\ StoppedAt(c, 2)
        /\ PathCall(d) /\ canonical[d] = <<A_OHH>> /\ Ran(d, 3)

-----------------------------------------------------------------------------
\* C4: once the metadata is read, the call fails with FileTooLarge exactly when
\* the reported size is greater than 104857600 bytes; exactly 104857600 bytes
\* pass the size gate and are read, 104857601 bytes are rejected.
C4_SizeGate ==
    \A c \in Callers : (PathCall(c) /\ Ran(c, 4)) =>
        /\ StoppedAt(c, 4) <=> metaLen[c] > 104857600
        /\ StoppedAt(c, 4) =>
              result[c] = Err("File too large: "
                              \o ToString((metaLen[c] \div 1024) \div 1024)
                              \o " MB (maximum 100 MB)")
        /\ metaLen[c] = 104857600 => (pc[c] = "read" \/ Did(c, "read"))
        /\ metaLen[c] = 104857601 => (StoppedAt(c, 4) /\ ~result[c].ok)

\* one call read a file of the ceiling, another was rejected one byte above it
C4_Witness ==
    \E c, d \in Callers :
        /\ PathCall(c) /\ metaLen[c] = 104857600 /\ Did(c, "read")
        /\ PathCall(d) /\ metaLen[d] = 104857601 /\ StoppedAt(d, 4)

-----------------------------------------------------------------------------
\* C5: a call whose path cannot be canonicalized (the target does not exist)
\* returns 'Invalid file path or file does not exist' whatever the extension in
\* the supplied string, and performs no other step.
C5_PathInvalid ==
    \A c \in Callers : (PathCall(c) /\ Done(c)) =>
        /\ (~dirty[c] /\ ~Canonicalize(fs, file_path[c]).ok) =>
              (result[c] = Err(PathInvalidMsg) /\ trace[c] = <<"canonicalize">>)
        /\ file_path[c] \in {<<DotDot, DotDot, ETC, PASSWD>>, <<GONE_OHH>>} =>
              /\ result[c] = Err("Invalid file path or file does not exist")
              /\ trace[c] = <<"canonicalize">>
              /\ canonical[c] = <<>> /\ metaLen[c] = 0 /\ content[c] = NoContent

\* a call on a missing path with an accepted extension has returned
C5_Witness ==
    \E c \in Callers : PathCall(c) /\ Done(c) /\ file_path[c] = <<GONE_OHH>>
        /\ <<GONE_OHH>> \notin DOMAIN fs

-----------------------------------------------------------------------------
-----------------------------------------------------------------------------
\* C7: for a file that passes the guard with content c, convert_ohh_file_path
\* returns what convert_ohh_content(c) returns: the same output on success and
\* the same error message on failure.
C7_SameResultAsContent ==
    \A c \in Callers : (PathCall(c) /\ StoppedAt(c, 6)) =>
        result[c] = ConvertContent(content[c])

-----------------------------------------------------------------------------
\* C8: calls are independent and deterministic: each finished call returned
\* what the command returns when run alone on its argument (for a path, on the
\* filesystem if it did not change during the call), and two calls of the same
\* command with the same argument returned the same result.
C8_CallsIndependent ==
    \A c \in Callers : Done(c) =>
        /\ cmd[c] = "content" =>
              result[c] = (IF ConvertOhhFile(input[c]).ok
                           THEN ConvertOhhFile(input[c])
                           ELSE Err("conversion failed: " \o ConvertOhhFile(input[c]).val))
        /\ (PathCall(c) /\ ~dirty[c]) => result[c] = convert_ohh_file_path(fs, file_path[c])
        /\ \A d \in Callers : (Done(d) /\ cmd[d] = cmd[c]) =>
              /\ (cmd[c] = "content" /\ input[c] = input[d]) => result[c] = result[d]
              /\ (PathCall(c) /\ file_path[c] = file_path[d] /\ ~dirty[c] /\ ~dirty[d]) =>
                    result[c] = result[d]

\* both callers finished conversions of different files while the filesystem
\* stood still
C8_Witness ==
    \E c, d \in Callers :
        /\ c # d /\ PathCall(c) /\ PathCall(d) /\ ~dirty[c] /\ ~dirty[d]
        /\ StoppedAt(c, 6) /\ StoppedAt(d, 6)
        /\ content[c].doc # content[d].doc

-----------------------------------------------------------------------------
\* C9: whatever other processes do to the file between the metadata call and
\* the read, the content read into memory is at most 100 MiB (the size checked
\* is the size read).
C9_ReadWithinCeiling ==
    \A c \in Callers : (PathCall(c) /\ Did(c, "read") /\ content[c] # NoContent) =>
        (content[c].len <= MAX_FILE_SIZE /\ content[c].len = metaLen[c])

-----------------------------------------------------------------------------
\* C10: the extension check, the size check and the read use the canonical
\* path: it has no ".." and no link in it; a link named l.ohh to a file without
\* extension is rejected, a link named l.bin to a.ohh and the path d/../a.ohh
\* are accepted, and the size checked and content read are those of a.ohh.
C10_CanonicalPathUsed ==
    \A c \in Callers : (PathCall(c) /\ Ran(c, 2)) =>
        /\ \A i \in 1..Len(canonical[c]) : canonical[c][i] # DotDot
        /\ ~dirty[c] => \A i \in 1..Len(canonical[c]) :
              /\ SubSeq(canonical[c], 1, i) \in DOMAIN fs
              /\ fs[SubSeq(canonical[c], 1, i)].kind # "link"
        /\ file_path[c] = <<L_OHH>> =>
              (canonical[c] = <<NOEXT>> /\ StoppedAt(c, 2) /\ result[c] = Err(NoExtensionMsg))
        /\ file_path[c] \in {<<L_BIN>>, <<DIR, DotDot, A_OHH>>} =>
              /\ canonical[c] = <<A_OHH>>
              /\ ~StoppedAt(c, 2)
              /\ (~dirty[c] /\ Ran(c, 4)) => metaLen[c] = fs[<<A_OHH>>].len
              /\ (~dirty[c] /\ Ran(c, 6)) =>
                    content[c] = [len |-> fs[<<A_OHH>>].len, doc |-> fs[<<A_OHH>>].doc]

\* one call through the link l.bin converted a.ohh, another through l.ohh was
\* rejected
C10_Witness ==
    \E c, d \in Callers :
        /\ PathCall(c) /\ file_path[c] = <<L_BIN>> /\ StoppedAt(c, 6) /\ result[c].ok
        /\ PathCall(d) /\ file_path[d] = <<L_OHH>> /\ StoppedAt(d, 2)

====
